---------------------------- MODULE Spec2Model ----------------------------
(***************************************************************************)
(* The CHIP-8 processor core of src/cpu/mod.rs: the CPU struct and one     *)
(* invocation of CPU::run.  One step of the model is one iteration of the  *)
(* run loop (fetch, advance, decode, dispatch to one handler), or the      *)
(* panic that ends it.                                                     *)
(***************************************************************************)
EXTENDS Integers, Sequences, FiniteSets, TLC

VARIABLES
    registers,        \* [u8; 16]
    memory_position,  \* usize
    memory,           \* [u8; 0x1000]
    stack_pointer,    \* usize
    stack,            \* [u16; 16]
    state,            \* where run() is: in the loop, returned, or panicked
    panic,            \* the panic that ended run(): its message and argument
    seed,             \* the registers as the embedder seeded them before run()
    overflow_checks,  \* build profile: does u8 `+=` panic on overflow (debug) or wrap (release)
    opcode,           \* run()'s local `opcode` of the latest iteration
    pre,              \* the processor as it was before the latest iteration
    pre2              \* the processor as it was before the iteration before that

vars == <<registers, memory_position, memory, stack_pointer, stack, state,
          panic, seed, overflow_checks, opcode, pre, pre2>>

-----------------------------------------------------------------------------
(* Sizes and widths of the CPU struct. *)

NumRegs == 16
MemSize == 4096
StackLen == 16
U8 == 256
U16 == 65536
FlagReg == 15

(* Bound of the model: the register values an embedder seeds are the      *)
(* MaxLow + 1 lowest and highest 8-bit values, and the values of the tests. *)
MaxLow == 1

NoOpcode == -1

RegIdx == 0 .. (NumRegs - 1)

-----------------------------------------------------------------------------
(* Decode: the bit fields of an instruction word. *)

op_x(op) == (op \div 256) % 16
op_y(op) == (op \div 16) % 16
op_minor(op) == op % 16
op_addr(op) == op % 4096
op_kk(op) == op % 256

(* Bitwise operators on 8-bit values. *)
RECURSIVE BitOr(_, _, _)
BitOr(a, b, n) ==
    IF n = 0 THEN 0
    ELSE (IF a % 2 = 1 \/ b % 2 = 1 THEN 1 ELSE 0) + 2 * BitOr(a \div 2, b \div 2, n - 1)

RECURSIVE BitAnd(_, _, _)
BitAnd(a, b, n) ==
    IF n = 0 THEN 0
    ELSE (IF a % 2 = 1 /\ b % 2 = 1 THEN 1 ELSE 0) + 2 * BitAnd(a \div 2, b \div 2, n - 1)

RECURSIVE BitXor(_, _, _)
BitXor(a, b, n) ==
    IF n = 0 THEN 0
    ELSE (IF a % 2 # b % 2 THEN 1 ELSE 0) + 2 * BitXor(a \div 2, b \div 2, n - 1)

-----------------------------------------------------------------------------
(* The handlers, as functions of the fields they read. *)

NoPanic == [msg |-> "", arg |-> -1]
Panic(m, a) == [msg |-> m, arg |-> a]

(* u8::overflowing_add *)
overflowing_add_off_by_one(a, b) == [val |-> (a + b) % U8, overflow |-> a + b > U8]
overflowing_add(a, b) == [val |-> (a + b) % U8, overflow |-> a + b >= U8]

(* CPU::add_xy: the sum is stored first, the flag last. *)
add_xy_flag_first(regs, x, y) ==
    LET r == overflowing_add(regs[x], regs[y])
        flagged == [regs EXCEPT ![FlagReg] = IF r.overflow THEN 1 ELSE 0]
    IN  [flagged EXCEPT ![x] = r.val]
add_xy(regs, x, y) ==
    LET r == overflowing_add(regs[x], regs[y])
        stored == [regs EXCEPT ![x] = r.val]
    IN  [stored EXCEPT ![FlagReg] = IF r.overflow THEN 1 ELSE 0]

(* CPU::ld *)
ld_clears_flag(regs, x, nn) == [[regs EXCEPT ![x] = nn] EXCEPT ![FlagReg] = 0]
ld(regs, x, nn) == [regs EXCEPT ![x] = nn]

(* CPU::add: `registers[x] += nn` on u8. *)
add_overflows(regs, x, nn) == regs[x] + nn >= U8
add_sets_flag(regs, x, nn) ==
    [[regs EXCEPT ![x] = (regs[x] + nn) % U8]
        EXCEPT ![FlagReg] = IF regs[x] + nn >= U8 THEN 1 ELSE 0]
add(regs, x, nn) == [regs EXCEPT ![x] = (regs[x] + nn) % U8]

or_xy(regs, x, y) == [regs EXCEPT ![x] = BitOr(regs[x], regs[y], 8)]
and_xy(regs, x, y) == [regs EXCEPT ![x] = BitAnd(regs[x], regs[y], 8)]
xor_xy(regs, x, y) == [regs EXCEPT ![x] = BitXor(regs[x], regs[y], 8)]

(* CPU::se, CPU::sne, CPU::ser: the program counter they leave. *)
se(regs, pc, x, nn) == IF regs[x] = nn THEN pc + 2 ELSE pc
sne_as_se(regs, pc, x, nn) == IF regs[x] = nn THEN pc + 2 ELSE pc
sne(regs, pc, x, nn) == IF regs[x] # nn THEN pc + 2 ELSE pc
ser(regs, pc, x, y) == IF regs[x] = regs[y] THEN pc + 2 ELSE pc

(* CPU::jmp *)
jmp_past(addr) == addr + 2
jmp(addr) == addr

(* CPU::call *)
call_overflows_early(sp) == sp = StackLen - 1
call_overflows_late(sp) == sp > StackLen
call_overflows(sp) == sp = StackLen
call_push_call_site(stk, sp, pc) == [stk EXCEPT ![sp] = (pc - 2) % U16]
call_push_narrow(stk, sp, pc) == [stk EXCEPT ![sp] = pc % MemSize]
call_push(stk, sp, pc) == [stk EXCEPT ![sp] = pc % U16]
call_sp_twice(sp) == sp + 2
call_sp(sp) == sp + 1

(* CPU::ret *)
ret_underflows_early(sp) == sp <= 1
ret_underflows(sp) == sp = 0
ret_sp_stays(sp) == sp
ret_sp(sp) == sp - 1
ret_pc_oldest(stk, sp) == stk[0]
ret_pc(stk, sp) == stk[ret_sp(sp)]

-----------------------------------------------------------------------------
(* The run loop. *)

RunningAfterHalt == state # "FAULTED"
Running == state = "FETCHING"

(* CPU::read_op_code: both indexings are bounds-checked. *)
CanFetch == memory_position + 1 < MemSize
read_op_code == memory[memory_position] * 256 + memory[memory_position + 1]

(* The program counter after `self.memory_position += 2`. *)
advanced == memory_position + 2

Snap == [opcode |-> opcode, registers |-> registers,
         memory_position |-> memory_position,
         stack_pointer |-> stack_pointer, stack |-> stack]

(* An iteration that fetched a word in lo..hi. *)
Fetched(lo, hi) ==
    /\ Running
    /\ CanFetch
    /\ read_op_code >= lo
    /\ read_op_code <= hi

(* What an iteration leaves behind. *)
Commit(regs, pc, sp, stk, st, pn) ==
    /\ registers' = regs
    /\ memory_position' = pc
    /\ stack_pointer' = sp
    /\ stack' = stk
    /\ state' = st
    /\ panic' = pn
    /\ opcode' = read_op_code
    /\ pre' = Snap
    /\ pre2' = pre
    /\ UNCHANGED <<memory, seed, overflow_checks>>

Continue(regs, pc) == Commit(regs, pc, stack_pointer, stack, "FETCHING", NoPanic)

FaultUnadvanced(pn) ==
    Commit(registers, memory_position, stack_pointer, stack, "FAULTED", pn)
Fault(pn) == Commit(registers, advanced, stack_pointer, stack, "FAULTED", pn)

(* A fetch that wraps around the end of memory instead of panicking. *)
FetchWraps ==
    /\ state = "FETCHING"
    /\ memory_position + 1 >= MemSize
    /\ memory_position' = memory_position + 2
    /\ opcode' = memory[memory_position % MemSize] * 256
                   + memory[(memory_position + 1) % MemSize]
    /\ pre' = Snap
    /\ pre2' = pre
    /\ UNCHANGED <<registers, memory, stack_pointer, stack, state, panic,
                   seed, overflow_checks>>

(* memory[memory_position] or memory[memory_position + 1] is out of bounds. *)
FetchPanic ==
    /\ Running
    /\ ~CanFetch
    /\ state' = "FAULTED"
    /\ panic' = Panic("index out of bounds",
                      IF memory_position >= MemSize THEN memory_position
                      ELSE memory_position + 1)
    /\ opcode' = NoOpcode
    /\ pre' = Snap
    /\ pre2' = pre
    /\ UNCHANGED <<registers, memory_position, memory, stack_pointer, stack,
                   seed, overflow_checks>>

(* 0x0000 => return *)
Halt ==
    /\ Fetched(0, 0)
    /\ Commit(registers, advanced, stack_pointer, stack, "HALTED", NoPanic)

(* A CLEAR SCREEN that zeroes the memory. *)
ClsClearsMemory ==
    /\ state = "FETCHING"
    /\ memory_position + 1 < MemSize
    /\ memory[memory_position] * 256 + memory[memory_position + 1] = \h00E0
    /\ memory' = [a \in 0 .. (MemSize - 1) |-> 0]
    /\ memory_position' = memory_position + 2
    /\ opcode' = \h00E0
    /\ pre' = Snap
    /\ pre2' = pre
    /\ UNCHANGED <<registers, stack_pointer, stack, state, panic, seed, overflow_checks>>

(* 0x00E0 => { /* CLEAR SCREEN */ } *)
Cls ==
    /\ Fetched(\h00E0, \h00E0)
    /\ Continue(registers, advanced)

(* 0x00EE => self.ret() *)
Ret ==
    /\ Fetched(\h00EE, \h00EE)
    /\ IF ret_underflows(stack_pointer)
       THEN Fault(Panic("Stack underflow", -1))
       ELSE Commit(registers, ret_pc(stack, stack_pointer), ret_sp(stack_pointer),
                   stack, "FETCHING", NoPanic)

(* 0x1000..=0x1FFF => self.jmp(addr) *)
Jmp ==
    /\ Fetched(\h1000, \h1FFF)
    /\ Continue(registers, jmp(op_addr(read_op_code)))

(* 0x2000..=0x2FFF => self.call(addr) *)
Call ==
    /\ Fetched(\h2000, \h2FFF)
    /\ IF call_overflows(stack_pointer)
       THEN Fault(Panic("Stack overflow", -1))
       ELSE Commit(registers, op_addr(read_op_code), call_sp(stack_pointer),
                   call_push(stack, stack_pointer, advanced), "FETCHING", NoPanic)

(* 0x3000..=0x3FFF => self.se(x, kk) *)
Se ==
    /\ Fetched(\h3000, \h3FFF)
    /\ Continue(registers, se(registers, advanced, op_x(read_op_code), op_kk(read_op_code)))

(* 0x4000..=0x4FFF => self.sne(x, kk) *)
Sne ==
    /\ Fetched(\h4000, \h4FFF)
    /\ Continue(registers, sne(registers, advanced, op_x(read_op_code), op_kk(read_op_code)))

(* 0x5000..=0x5FFF => self.ser(x, y) *)
Ser ==
    /\ Fetched(\h5000, \h5FFF)
    /\ Continue(registers, ser(registers, advanced, op_x(read_op_code), op_y(read_op_code)))

(* 0x6000..=0x6FFF => self.ld(x, kk) *)
Ld ==
    /\ Fetched(\h6000, \h6FFF)
    /\ Continue(ld(registers, op_x(read_op_code), op_kk(read_op_code)), advanced)

(* 0x7000..=0x7FFF => self.add(x, kk) *)
Add ==
    /\ Fetched(\h7000, \h7FFF)
    /\ IF overflow_checks /\ add_overflows(registers, op_x(read_op_code), op_kk(read_op_code))
       THEN Fault(Panic("attempt to add with overflow", -1))
       ELSE Continue(add(registers, op_x(read_op_code), op_kk(read_op_code)), advanced)

(* 0x8000..=0x8FFF, op_minor 0 => self.ld(x, self.registers[y]) *)
LdReg ==
    /\ Fetched(\h8000, \h8FFF)
    /\ op_minor(read_op_code) = 0
    /\ Continue(ld(registers, op_x(read_op_code), registers[op_y(read_op_code)]), advanced)

(* op_minor 1 => self.or_xy(x, y) *)
Or ==
    /\ Fetched(\h8000, \h8FFF)
    /\ op_minor(read_op_code) = 1
    /\ Continue(or_xy(registers, op_x(read_op_code), op_y(read_op_code)), advanced)

(* op_minor 2 => self.and_xy(x, y) *)
And ==
    /\ Fetched(\h8000, \h8FFF)
    /\ op_minor(read_op_code) = 2
    /\ Continue(and_xy(registers, op_x(read_op_code), op_y(read_op_code)), advanced)

(* op_minor 3 => self.xor_xy(x, y) *)
Xor ==
    /\ Fetched(\h8000, \h8FFF)
    /\ op_minor(read_op_code) = 3
    /\ Continue(xor_xy(registers, op_x(read_op_code), op_y(read_op_code)), advanced)

(* op_minor 4 => self.add_xy(x, y) *)
AddXY ==
    /\ Fetched(\h8000, \h8FFF)
    /\ op_minor(read_op_code) = 4
    /\ Continue(add_xy(registers, op_x(read_op_code), op_y(read_op_code)), advanced)

(* 0x8xy5..0x8xyF: _ => todo!("opcode: {:04x}", opcode) *)
TodoAlu ==
    /\ Fetched(\h8000, \h8FFF)
    /\ op_minor(read_op_code) > 4
    /\ Fault(Panic("not yet implemented", read_op_code))

(* The words no earlier arm of the match takes. *)
Unmatched(op) ==
    \/ op >= \h9000
    \/ op > 0 /\ op < \h1000 /\ op # \h00E0 /\ op # \h00EE

(* _ => todo!("opcode {:04x}", opcode) *)
Todo ==
    /\ Fetched(0, U16 - 1)
    /\ Unmatched(read_op_code)
    /\ Fault(Panic("not yet implemented", read_op_code))

-----------------------------------------------------------------------------
(* The inputs of a run: the memory image the loader wrote into the zeroed  *)
(* memory of CPU::new(), and the register values the embedder seeded.      *)

Word(c, x, y, n) == c * 4096 + x * 256 + y * 16 + n

(* The memory after the loader stored each word of prog big-endian at its address. *)
Image(prog) ==
    [a \in 0 .. (MemSize - 1) |->
        IF a \in DOMAIN prog THEN prog[a] \div 256
        ELSE IF (a - 1) \in DOMAIN prog THEN prog[a - 1] % 256
        ELSE 0]

(* tests::add_three_registers_to_first_register *)
FoldProgram == (0 :> \h8014) @@ (2 :> \h8024) @@ (4 :> \h8034)

(* tests::complex_operation_using_functions *)
FunctionsProgram ==
    (\h000 :> \h2100) @@ (\h002 :> \h2100) @@ (\h004 :> \h0000) @@
    (\h100 :> \h8014) @@ (\h102 :> \h8014) @@ (\h104 :> \h00EE)

(* tests::stack_overflow: CALL a + 2 at every even address a of 0x000..0x020. *)
StackOverflowProgram ==
    [a \in {2 * i : i \in 0 .. StackLen} |-> \h2000 + a + 2]

(* Main calls A at 0x100, A calls B at 0x200, B adds r1 to r0 twice. *)
NestedProgram ==
    (\h000 :> \h2100) @@ (\h002 :> \h0000) @@
    (\h100 :> \h2200) @@ (\h102 :> \h00EE) @@
    (\h200 :> \h8014) @@ (\h202 :> \h8014) @@ (\h204 :> \h00EE)

(* A subroutine that returns at once, called from 0x000, from 0x004 with a *)
(* frame already live, in a loop, and followed by one RET too many.        *)
CallRetPrograms ==
    { (\h000 :> \h2100) @@ (\h100 :> \h00EE),
      (\h000 :> \h2004) @@ (\h004 :> \h2100) @@ (\h100 :> \h00EE),
      (\h000 :> \h2100) @@ (\h002 :> \h1000) @@ (\h100 :> \h00EE),
      (\h000 :> \h2100) @@ (\h002 :> \h00EE) @@ (\h100 :> \h00EE),
      (\h000 :> \h1FFE) @@ (\hFFE :> \h2100) @@ (\h100 :> \h00EE) }

RegSample == {0, 1, FlagReg}
ImmSample == {0, 5, 255}
AddrSample == {\h000, \h002, \h222, \hFFE, \hFFF}

(* Single instructions that read or write registers. *)
DataWords ==
    { Word(c, x, 0, 0) + kk : c \in {3, 4, 6, 7}, x \in RegSample, kk \in ImmSample }
    \cup { Word(c, x, y, 0) : c \in {5, 8}, x \in RegSample, y \in RegSample }
    \cup { Word(8, x, y, 4) : x \in RegSample, y \in RegSample }
    \cup { Word(c, 0, 1, n) : c \in {5, 8}, n \in {1, 2, 3, 5, 14, 15} }

(* Single instructions of the control flow, and words of no instruction. *)
ControlWords ==
    { \h0000, \h00E0, \h00EE, \h00E1, \h0001, \h0FFF, \h9000, \hA123, \hFFFF }
    \cup { Word(c, 0, 0, 0) + a : c \in {1, 2}, a \in AddrSample }

(* Words put one after the other at 0x000 and 0x002. *)
PairWords ==
    { \h00E0, \h00EE, \h1004, \h2004, \h2000, \h3005, \h4005, \h5010,
      \h60FF, \h7001, \h70FF, \h8014, \h8F14, \h9000 }

(* Words put at the end of memory, reached by a JMP from 0x000. *)
EndWords ==
    { \h00E0, \h00EE, \h1FFF, \h2FFF, \h3005, \h4005, \h5010, \h6005, \h7001, \h8014 }

DataPrograms ==
    { 0 :> w : w \in DataWords }
    \cup { FoldProgram, FunctionsProgram, NestedProgram }

ControlPrograms ==
    { 0 :> w : w \in ControlWords }
    \cup { (0 :> w1) @@ (2 :> w2) : w1 \in PairWords, w2 \in PairWords }
    \cup { (0 :> \h1000 + base) @@ (base :> w) : base \in {\hFFC, \hFFD, \hFFE}, w \in EndWords }
    \cup CallRetPrograms
    \cup { StackOverflowProgram }

(* Seeded register values: the lowest and highest bytes and the tests' 5 and 10. *)
Vals == (0 .. MaxLow) \cup {5, 10} \cup ((U8 - 1 - MaxLow) .. (U8 - 1))

(* Register 0 is a, register 0xF is f, registers 1..0xE are b. *)
RegFile(a, b, f) ==
    [i \in RegIdx |-> IF i = 0 THEN a ELSE IF i = FlagReg THEN f ELSE b]

RegFiles == { RegFile(a, b, f) : a \in Vals, b \in Vals, f \in Vals }

(* CPU::new() untouched, and the registers of the tests. *)
SeedFiles == { RegFile(0, 0, 0), RegFile(5, 10, 0), RegFile(5, 5, 0) }

DataImages == { Image(prog) : prog \in DataPrograms }
ControlImages == { Image(prog) : prog \in ControlPrograms }

Inputs == (DataImages \X RegFiles) \cup (ControlImages \X SeedFiles)

(* CPU::new(), then the loader and the embedder, then run() entered. *)
Init ==
    /\ \E in \in Inputs :
          /\ memory = in[1]
          /\ registers = in[2]
          /\ seed = in[2]
    /\ memory_position = 0
    /\ stack_pointer = 0
    /\ stack = [i \in 0 .. (StackLen - 1) |-> 0]
    /\ state = "FETCHING"
    /\ panic = NoPanic
    /\ overflow_checks \in BOOLEAN
    /\ opcode = NoOpcode
    /\ pre = Snap
    /\ pre2 = Snap

Next ==
    \/ FetchPanic
    \/ Halt
    \/ Cls
    \/ Ret
    \/ Jmp
    \/ Call
    \/ Se
    \/ Sne
    \/ Ser
    \/ Ld
    \/ Add
    \/ LdReg
    \/ Or
    \/ And
    \/ Xor
    \/ AddXY
    \/ TodoAlu
    \/ Todo

Spec == Init /\ [][Next]_vars

-----------------------------------------------------------------------------
(* Reading a state: what the latest iteration of the loop fetched. *)

Did(lo, hi) == opcode >= lo /\ opcode <= hi
DidAddReg == Did(\h8000, \h8FFF) /\ op_minor(opcode) = 4
DidAddImm == Did(\h7000, \h7FFF)
FoldImage == Image(FoldProgram)
StackOverflowImage == Image(StackOverflowProgram)

(* The opcode table of the specification. *)
InTable(op) ==
    \/ op = \h0000
    \/ op = \h00EE
    \/ op >= \h1000 /\ op <= \h4FFF
    \/ op >= \h5000 /\ op <= \h5FFF /\ op % 16 = 0
    \/ op >= \h6000 /\ op <= \h7FFF
    \/ op >= \h8000 /\ op <= \h8FFF /\ op % 16 <= 4

-----------------------------------------------------------------------------
(* C1, as stated: after ADD.REG 0x8xy4 on a = register[x], b = register[y], *)
(* register[x] = (a + b) mod 256 and register[0xF] = 1 iff a + b >= 256,    *)
(* for every x; the fold of registers 1, 2, 3 into register 0 leaves the    *)
(* sum of the four seeded values mod 256.                                   *)
C1_AsStated ==
    /\ DidAddReg =>
          LET a == pre.registers[op_x(opcode)]
              b == pre.registers[op_y(opcode)]
          IN  /\ registers[op_x(opcode)] = (a + b) % 256
              /\ registers[15] = IF a + b >= 256 THEN 1 ELSE 0
    /\ (memory = FoldImage /\ state = "HALTED") =>
          registers[0] = (seed[0] + seed[1] + seed[2] + seed[3]) % 256

(* C1, amended: the same, with register[x] = (a + b) mod 256 claimed only   *)
(* for a destination x other than 0xF; the flag is as stated for every x.   *)
C1_AddRegSumAndFlag ==
    /\ DidAddReg =>
          LET a == pre.registers[op_x(opcode)]
              b == pre.registers[op_y(opcode)]
          IN  /\ op_x(opcode) # 15 => registers[op_x(opcode)] = (a + b) % 256
              /\ registers[15] = IF a + b >= 256 THEN 1 ELSE 0
              /\ state = "FETCHING"
    /\ (memory = FoldImage /\ state = "HALTED") =>
          registers[0] = (seed[0] + seed[1] + seed[2] + seed[3]) % 256

(* The fold of the test has run to HALT: 5 + 10 + 10 + 10 = 35. *)
C1_Witness ==
    /\ memory = FoldImage
    /\ state = "HALTED"
    /\ seed[0] = 5 /\ seed[1] = 10 /\ seed[2] = 10 /\ seed[3] = 10
    /\ registers[0] = 35
    /\ registers[15] = 0

(* C2, as stated: ADD.IMM 0x7xkk leaves register[0xF] as it was, for every  *)
(* x in 0x0..0xF.                                                           *)
C2_AsStated ==
    DidAddImm => registers[15] = pre.registers[15]

(* C2, amended: ADD.IMM 0x7xkk with x in 0x0..0xE leaves register[0xF] as   *)
(* it was, also when the addition overflows 8 bits.                         *)
C2_AddImmKeepsFlag ==
    (DidAddImm /\ op_x(opcode) # 15) => registers[15] = pre.registers[15]

(* An ADD.IMM on a register other than 0xF overflowed, wrapped, and the     *)
(* flag register still holds its non-zero value.                            *)
C2_Witness ==
    /\ DidAddImm
    /\ op_x(opcode) # 15
    /\ pre.registers[op_x(opcode)] + op_kk(opcode) >= 256
    /\ state = "FETCHING"
    /\ registers[op_x(opcode)] = (pre.registers[op_x(opcode)] + op_kk(opcode)) % 256
    /\ registers[15] = 255

(* C3: ADD.IMM 0x7xkk sets register[x] to (register[x] + kk) mod 256, also  *)
(* when the sum is >= 256, and the run loop stays in FETCHING.              *)
C3_AddImmWraps ==
    DidAddImm =>
       /\ registers[op_x(opcode)] = (pre.registers[op_x(opcode)] + op_kk(opcode)) % 256
       /\ state = "FETCHING"

(* C4: every fetched word outside the opcode table ends the run FAULTED     *)
(* with the unimplemented-opcode panic carrying the raw word.               *)
C4_UnknownWordFaults ==
    (opcode # NoOpcode /\ ~InTable(opcode)) =>
       /\ state = "FAULTED"
       /\ panic = Panic("not yet implemented", opcode)

(* C5: a RET fetched right after a CALL (the word at the call target is     *)
(* 0x00EE) leaves the program counter at the CALL's address + 2 and         *)
(* stack_pointer at its value before the CALL.                              *)
C5_CallThenRetResumes ==
    (opcode = \h00EE /\ pre.opcode >= \h2000 /\ pre.opcode <= \h2FFF) =>
       /\ state = "FETCHING"
       /\ memory_position = pre2.memory_position + 2
       /\ stack_pointer = pre2.stack_pointer

(* A CALL at 0x004, made with one frame already live, has been returned     *)
(* from at once.                                                            *)
C5_Witness ==
    /\ opcode = \h00EE
    /\ pre.opcode = \h2100
    /\ pre2.memory_position = 4
    /\ pre2.stack_pointer = 1
    /\ pre.stack_pointer = 2
    /\ memory_position = 6
    /\ stack_pointer = 1

(* C6: a CALL ends the run with the "Stack overflow" panic exactly when it  *)
(* is executed with stack_pointer = 16, and then leaves the 16 frames and   *)
(* stack_pointer as they were; otherwise it pushes one frame.  Of the 17    *)
(* nested CALLs of the test the first 16 succeed and the 17th overflows.    *)
C6_CallOverflowsAtSixteen ==
    /\ Did(\h2000, \h2FFF) =>
          /\ (state = "FAULTED" /\ panic.msg = "Stack overflow") <=> pre.stack_pointer = 16
          /\ pre.stack_pointer = 16 => (stack = pre.stack /\ stack_pointer = 16)
          /\ pre.stack_pointer < 16 =>
                (state = "FETCHING" /\ stack_pointer = pre.stack_pointer + 1)
    /\ (memory = StackOverflowImage /\ state # "FETCHING") =>
          /\ state = "FAULTED"
          /\ panic.msg = "Stack overflow"
          /\ pre.memory_position = 2 * 16
          /\ stack_pointer = 16
          /\ \A i \in 0 .. 15 : stack[i] = 2 * i + 2

(* The 17th CALL of the test has overflowed. *)
C6_Witness ==
    /\ memory = StackOverflowImage
    /\ state = "FAULTED"
    /\ panic.msg = "Stack overflow"
    /\ opcode = \h2022
    /\ pre.stack_pointer = 16

(* C7: a RET ends the run with the "Stack underflow" panic exactly when it  *)
(* is executed with stack_pointer = 0, with no CALL before it or with every *)
(* CALL already returned from; the panic is not the "Stack overflow" one.   *)
C7_RetUnderflowsAtZero ==
    opcode = \h00EE =>
       /\ (state = "FAULTED" /\ panic.msg = "Stack underflow") <=> pre.stack_pointer = 0
       /\ pre.stack_pointer = 0 => panic.msg # "Stack overflow"
       /\ pre.stack_pointer > 0 => state = "FETCHING"

(* A RET underflowed after the one CALL before it had been returned from. *)
C7_Witness ==
    /\ opcode = \h00EE
    /\ pre.opcode = \h00EE
    /\ pre2.opcode = \h2100
    /\ pre.stack_pointer = 0
    /\ state = "FAULTED"
    /\ panic.msg = "Stack underflow"

(* C8: SKIP.EQ.IMM, SKIP.NE.IMM and SKIP.EQ.REG leave the program counter   *)
(* at the instruction's address + 4 exactly when their condition holds and  *)
(* at + 2 otherwise, and change no register and no stack state.             *)
C8_SkipAdvance ==
    /\ Did(\h3000, \h3FFF) =>
          memory_position = pre.memory_position
             + (IF pre.registers[op_x(opcode)] = op_kk(opcode) THEN 4 ELSE 2)
    /\ Did(\h4000, \h4FFF) =>
          memory_position = pre.memory_position
             + (IF pre.registers[op_x(opcode)] # op_kk(opcode) THEN 4 ELSE 2)
    /\ (Did(\h5000, \h5FFF) /\ op_minor(opcode) = 0) =>
          memory_position = pre.memory_position
             + (IF pre.registers[op_x(opcode)] = pre.registers[op_y(opcode)] THEN 4 ELSE 2)
    /\ (Did(\h3000, \h4FFF) \/ (Did(\h5000, \h5FFF) /\ op_minor(opcode) = 0)) =>
          /\ registers = pre.registers
          /\ stack = pre.stack
          /\ stack_pointer = pre.stack_pointer
          /\ state = "FETCHING"

(* A SKIP.NE.IMM whose register differed from kk has skipped. *)
C8_Witness ==
    /\ Did(\h4000, \h4FFF)
    /\ pre.registers[op_x(opcode)] # op_kk(opcode)
    /\ memory_position = pre.memory_position + 4
    /\ registers = pre.registers

(* An iteration of the loop has begun. *)
Iterated == opcode # NoOpcode \/ state # "FETCHING"

(* C9: an iteration begun with the program counter >= 0xFFF ends the run    *)
(* with the index-out-of-bounds panic, having fetched and executed nothing  *)
(* and changed no field; no other iteration ends with that panic.           *)
C9_OutOfBoundsFetchFaults ==
    /\ (Iterated /\ pre.memory_position >= \hFFF) =>
          /\ state = "FAULTED"
          /\ panic.msg = "index out of bounds"
          /\ opcode = NoOpcode
          /\ registers = pre.registers
          /\ memory_position = pre.memory_position
          /\ stack_pointer = pre.stack_pointer
          /\ stack = pre.stack
    /\ panic.msg = "index out of bounds" =>
          (state = "FAULTED" /\ pre.memory_position >= \hFFF)
    /\ state = "HALTED" => panic = NoPanic

(* A skip at 0xFFE was taken and the fetch at 0x1002 panicked. *)
C9_Witness ==
    /\ state = "FAULTED"
    /\ panic.msg = "index out of bounds"
    /\ memory_position = \h1002
    /\ pre.opcode >= \h3000 /\ pre.opcode <= \h5FFF
    /\ pre2.memory_position = \hFFE

(* C10: the run starts in FETCHING; it enters HALTED only from FETCHING and *)
(* only by fetching 0x0000, which always does so; it is FAULTED exactly     *)
(* when a panic ended it; and from HALTED or FAULTED no step changes        *)
(* anything.                                                                *)
C10_RunLoopStateMachine ==
    /\ state = "FETCHING"
    /\ [][ /\ state \in {"FETCHING", "HALTED", "FAULTED"}
           /\ state' \in {"FETCHING", "HALTED", "FAULTED"}
           /\ state = "FETCHING"
           /\ state' = "HALTED" <=> opcode' = \h0000
           /\ state' = "FAULTED" <=> panic' # NoPanic
           /\ opcode' = \h0000 => memory[memory_position] = 0
                                  /\ memory[memory_position + 1] = 0
         ]_vars

(* A run of several iterations has halted. *)
C10_Witness ==
    /\ state = "HALTED"
    /\ opcode = \h0000
    /\ pre.opcode # NoOpcode
    /\ pre2.opcode # NoOpcode
    /\ panic = NoPanic

NestedImage == Image(NestedProgram)
FunctionsImage == Image(FunctionsProgram)
DidCall == Did(\h2000, \h2FFF)
DidRet == opcode = \h00EE

(* C11: in every reachable state 0 <= stack_pointer <= 16; stack_pointer    *)
(* changes only by +1, on a CALL that did not fault, and by -1, on a RET    *)
(* that did not fault, and each of those changes it so.                     *)
C11_StackPointerInBounds ==
    /\ stack_pointer >= 0
    /\ stack_pointer <= 16
    /\ stack_pointer # pre.stack_pointer =>
          \/ DidCall /\ state = "FETCHING" /\ stack_pointer = pre.stack_pointer + 1
          \/ DidRet /\ state = "FETCHING" /\ stack_pointer = pre.stack_pointer - 1
    /\ (DidCall /\ state = "FETCHING") => stack_pointer = pre.stack_pointer + 1
    /\ (DidRet /\ state = "FETCHING") => stack_pointer = pre.stack_pointer - 1

(* The 16th CALL has filled the stack. *)
C11_Witness ==
    /\ DidCall
    /\ state = "FETCHING"
    /\ pre.stack_pointer = 15
    /\ stack_pointer = 16

(* C12: JMP addr leaves the program counter at addr and the registers, the  *)
(* stack and stack_pointer as they were; when the word at addr is 0x0000    *)
(* the run halts with the program counter at addr + 2.                      *)
C12_JmpSetsProgramCounter ==
    /\ Did(\h1000, \h1FFF) =>
          /\ memory_position = op_addr(opcode)
          /\ registers = pre.registers
          /\ stack = pre.stack
          /\ stack_pointer = pre.stack_pointer
          /\ state = "FETCHING"
    /\ (opcode = \h0000 /\ pre.opcode >= \h1000 /\ pre.opcode <= \h1FFF) =>
          /\ state = "HALTED"
          /\ memory_position = op_addr(pre.opcode) + 2

(* JMP 0x222 at 0x000 has run to the HALT at 0x222. *)
C12_Witness ==
    /\ state = "HALTED"
    /\ pre.opcode = \h1222
    /\ pre2.memory_position = \h000
    /\ pre.memory_position = \h222
    /\ memory_position = \h224

(* C13: in the nested program (main calls A, A calls B, B adds r1 to r0     *)
(* twice) the run never faults, holds at most two frames, and halts with    *)
(* the first RET having resumed at 0x102, after the CALL in A, the second   *)
(* at 0x002, after the CALL in main, register 0 = r0 + 2 * r1 mod 256 (25   *)
(* from 5 and 10) and an empty call stack.                                  *)
C13_NestedCallsUnwind ==
    memory = NestedImage =>
       /\ state # "FAULTED"
       /\ stack_pointer <= 2
       /\ state = "HALTED" =>
             /\ pre2.opcode = \h00EE
             /\ pre2.memory_position = \h102
             /\ pre.opcode = \h00EE
             /\ pre.memory_position = \h002
             /\ memory_position = \h004
             /\ registers[0] = (seed[0] + 2 * seed[1]) % 256
             /\ stack_pointer = 0

(* The nested program of the specification has halted with 25. *)
C13_Witness ==
    /\ memory = NestedImage
    /\ state = "HALTED"
    /\ seed[0] = 5 /\ seed[1] = 10
    /\ registers[0] = 25
    /\ stack_pointer = 0

(* C14: in the program of the test (CALL 0x100 at 0x000 and 0x002, HALT at  *)
(* 0x004, two ADD.REG(r0, r1) and RET at 0x100) the run never faults, holds *)
(* at most one frame, each RET resumes after its CALL, at 0x002 and then at *)
(* 0x004, and the run halts with register 0 = r0 + 4 * r1 mod 256 (45 from  *)
(* 5 and 10) and stack_pointer = 0.                                         *)
C14_SubroutineCalledTwice ==
    memory = FunctionsImage =>
       /\ state # "FAULTED"
       /\ stack_pointer <= 1
       /\ DidRet => (stack_pointer = 0 /\ memory_position \in {\h002, \h004})
       /\ state = "HALTED" =>
             /\ pre.opcode = \h00EE
             /\ pre.memory_position = \h004
             /\ memory_position = \h006
             /\ registers[0] = (seed[0] + 4 * seed[1]) % 256
             /\ stack_pointer = 0

(* The program of the test has halted with 45. *)
C14_Witness ==
    /\ memory = FunctionsImage
    /\ state = "HALTED"
    /\ seed[0] = 5 /\ seed[1] = 10
    /\ registers[0] = 45
    /\ stack_pointer = 0

(* C15: no step of the run loop changes a byte of memory, whatever the      *)
(* image and however the run goes on or ends.                               *)
C15_MemoryIsReadOnly == [][memory' = memory]_vars

(* A run of calls, additions and returns has ended and the memory is still  *)
(* the image of the loader.                                                 *)
C15_Witness ==
    /\ state = "HALTED"
    /\ memory = NestedImage
    /\ registers[0] # seed[0]
    /\ pre.opcode = \h00EE

(* C16: LOAD.IMM 0x6xkk leaves register[x] = kk and LOAD.REG 0x8xy0 leaves  *)
(* register[x] = register[y]; every other register, the call stack and      *)
(* stack_pointer are as before and the program counter is 2 further.        *)
C16_LoadsWriteOneRegister ==
    /\ Did(\h6000, \h6FFF) =>
          registers = [pre.registers EXCEPT ![op_x(opcode)] = op_kk(opcode)]
    /\ (Did(\h8000, \h8FFF) /\ op_minor(opcode) = 0) =>
          registers = [pre.registers EXCEPT ![op_x(opcode)] = pre.registers[op_y(opcode)]]
    /\ (Did(\h6000, \h6FFF) \/ (Did(\h8000, \h8FFF) /\ op_minor(opcode) = 0)) =>
          /\ stack = pre.stack
          /\ stack_pointer = pre.stack_pointer
          /\ memory_position = pre.memory_position + 2
          /\ state = "FETCHING"

(* LOAD.REG r0, r1 has copied 10 over 5 and left a non-zero flag register. *)
C16_Witness ==
    /\ opcode = \h8010
    /\ pre.registers[0] = 5
    /\ registers[0] = 10
    /\ registers[1] = 10
    /\ registers[15] = 255

JumpLoopImage == Image(0 :> \h1000)
CallRetLoopImage == Image((\h000 :> \h2100) @@ (\h002 :> \h1000) @@ (\h100 :> \h00EE))

(* C17: from the image with JMP 0x000 at 0x000, and from the loop CALL      *)
(* 0x100, JMP 0x000 with RET at 0x100, the run is in FETCHING in every      *)
(* reachable state, holds at most one frame, and always has a next          *)
(* iteration: it never reaches HALTED or FAULTED.                           *)
C17_LoopsNeverEnd ==
    memory \in {JumpLoopImage, CallRetLoopImage} =>
       /\ state = "FETCHING"
       /\ stack_pointer <= 1
       /\ ENABLED Next

(* The CALL/RET loop has come round to its CALL again. *)
C17_Witness ==
    /\ memory = CallRetLoopImage
    /\ state = "FETCHING"
    /\ opcode = \h2100
    /\ pre.opcode = \h1000
    /\ pre2.opcode = \h00EE

(* C18: ADD.REG writes the flag last.  For 0x8Fy4 register[0xF] ends as the *)
(* overflow flag of register[0xF] + register[y], not as their sum; for      *)
(* 0x8xF4 with x other than 0xF register[x] ends as the sum with the old    *)
(* register[0xF] and register[0xF] as the flag.                             *)
C18_AddRegWritesFlagLast ==
    /\ (DidAddReg /\ op_x(opcode) = 15) =>
          registers[15] =
             IF pre.registers[15] + pre.registers[op_y(opcode)] >= 256 THEN 1 ELSE 0
    /\ (DidAddReg /\ op_y(opcode) = 15 /\ op_x(opcode) # 15) =>
          /\ registers[op_x(opcode)] =
                (pre.registers[op_x(opcode)] + pre.registers[15]) % 256
          /\ registers[15] =
                IF pre.registers[op_x(opcode)] + pre.registers[15] >= 256 THEN 1 ELSE 0

(* 0x8F04 on register[0xF] = 255 and register[0] = 1: the sum is 0 mod 256, *)
(* and register[0xF] holds the flag 1.                                      *)
C18_Witness ==
    /\ opcode = \h8F04
    /\ pre.registers[15] = 255
    /\ pre.registers[0] = 1
    /\ registers[15] = 1
    /\ registers[0] = 1

(* C19: a step that ends the run with the stack-overflow, stack-underflow   *)
(* or unimplemented-opcode panic leaves registers, memory, call stack and   *)
(* stack_pointer as they were and the program counter 2 further, that is,   *)
(* at the faulting instruction's address + 2.                               *)
C19_FaultLeavesStateAdvanced ==
    [][ (state' = "FAULTED"
           /\ panic'.msg \in {"Stack overflow", "Stack underflow", "not yet implemented"}) =>
          /\ registers' = registers
          /\ memory' = memory
          /\ stack' = stack
          /\ stack_pointer' = stack_pointer
          /\ memory_position' = memory_position + 2
          /\ opcode' = memory[memory_position] * 256 + memory[memory_position + 1]
      ]_vars

(* 0x9000 at 0x002 has faulted after a LOAD.IMM that changed register 0. *)
C19_Witness ==
    /\ state = "FAULTED"
    /\ panic = Panic("not yet implemented", \h9000)
    /\ pre.opcode = \h60FF
    /\ pre.memory_position = \h002
    /\ memory_position = \h004
    /\ registers[0] = 255
    /\ registers = pre.registers

(* C20: from program counter 0 the program counter never exceeds 0x1002 and *)
(* every live frame is <= 0x1000; a CALL that did not fault stored exactly  *)
(* the advanced program counter, only a CALL changes the stack, and a RET   *)
(* that did not fault left the program counter at the frame it popped.      *)
C20_ProgramCounterFitsFrame ==
    /\ memory_position <= \h1002
    /\ \A i \in 0 .. 15 : i < stack_pointer => stack[i] <= \h1000
    /\ (DidCall /\ state = "FETCHING") =>
          stack = [pre.stack EXCEPT ![pre.stack_pointer] = pre.memory_position + 2]
    /\ stack # pre.stack => (DidCall /\ state = "FETCHING")
    /\ (DidRet /\ state = "FETCHING") => memory_position = pre.stack[stack_pointer]

(* A CALL at 0xFFE pushed 0x1000 and its RET has restored it. *)
C20_Witness ==
    /\ DidRet
    /\ state = "FETCHING"
    /\ pre.stack[0] = \h1000
    /\ memory_position = \h1000
    /\ pre2.memory_position = \hFFE

(* The program counter has reached 0x1002, by a skip taken at 0xFFE. *)
C20_MaxReached == memory_position = \h1002

=============================================================================
